---- MODULE Spec2Model ----
(***************************************************************************)
(* Upload pipeline of frontend/src/components/upload/FileUpload.tsx:       *)
(* the validation gate (beforeUpload), the XMLHttpRequest transfer with    *)
(* its progress / load / error listeners (customUpload) and the list of    *)
(* uploaded files (uploadedFiles, removeFile).                             *)
(*                                                                         *)
(* Strings that the code inspects (file names, extensions) are sequences   *)
(* of one-character strings.  Messages are sequences of string parts, so   *)
(* that a template literal is the sequence of its literal and its          *)
(* interpolated parts.                                                     *)
(***************************************************************************)
EXTENDS Integers, Sequences, FiniteSets, TLC

VARIABLES uploading, uploadProgress, uploadedFiles,
          xhr, requests, entered, calls, appended, toast, last,
          captured, succeeded, removed

\* captured is the value of uploadedFiles in the render whose customUpload
\* closure registered the listeners of the latest request; succeeded
\* counts the onSuccess calls and removed the removeFile calls with an
\* index inside the list.
vars == <<uploading, uploadProgress, uploadedFiles,
          xhr, requests, entered, calls, appended, toast, last,
          captured, succeeded, removed>>

----------------------------------------------------------------------------
(* Bounds of the model *)

\* transfers that customUpload may start in one behaviour
MaxTransfers == 2

\* progress events the browser delivers during one transfer
MaxTicks == 2

----------------------------------------------------------------------------
(* Inputs *)

\* display names a user may pick
Names ==
  { <<"a", ".", "C", "p", "p">>,
    <<"H">>,
    <<"p", ".", "t", "a", "r", ".", "g", "z">>,
    <<"x", ".", "e", "x", "e">> }

\* HTTP statuses a completed request may carry
Statuses == {200, 201, 304, 404}

\* totals of a progress event whose length is computable
Totals == {3}

\* byte counts a progress event may report as sent
Loadeds == {2, 3}

\* response bodies the server may send
ResponseTexts == {"ackA", "ackB", "rejected", "garbage", "null"}

\* indices removeFile may be called with
Indices == (0 - 1) .. MaxTransfers

----------------------------------------------------------------------------
(* Validation gate *)

supportedExtensions ==
  << <<".", "c", "p", "p">>, <<".", "h", "p", "p">>, <<".", "h">>,
     <<".", "c">>, <<".", "c", "c">>, <<".", "c", "x", "x">>,
     <<".", "z", "i", "p">>, <<".", "t", "a", "r", ".", "g", "z">>,
     <<".", "t", "g", "z">> >>

maxFileSize == 50 * 1024 * 1024

\* byte sizes a user may pick
Sizes == {1024, maxFileSize, maxFileSize + 1}

\* String.prototype.toLowerCase on one character
LowerChar(c) ==
  CASE c = "A" -> "a"
    [] c = "C" -> "c"
    [] c = "H" -> "h"
    [] c = "P" -> "p"
    [] OTHER   -> c

toLowerCase(s) == [i \in 1 .. Len(s) |-> LowerChar(s[i])]

\* position of the final "." of s, 0 when s has none
LastDot(s) ==
  LET dots == {i \in 1 .. Len(s) : s[i] = "."}
  IN  IF dots = {} THEN 0 ELSE CHOOSE i \in dots : \A j \in dots : j <= i

\* the text after the final ".", empty when s has no "."
splitPop_noDotEmpty(s) ==
  IF LastDot(s) = 0 THEN <<>> ELSE SubSeq(s, LastDot(s) + 1, Len(s))

\* s.split('.').pop(): the text after the final ".", the whole of s when
\* there is none
splitPop(s) == SubSeq(s, LastDot(s) + 1, Len(s))

fileExtension(name) == <<".">> \o toLowerCase(splitPop(name))

includes(arr, x) == \E i \in 1 .. Len(arr) : arr[i] = x

beforeUpload_noSize(file) ==
  includes(supportedExtensions, fileExtension(file.name))

beforeUpload_ge(file) ==
  IF ~includes(supportedExtensions, fileExtension(file.name)) THEN FALSE
  ELSE IF file.size >= maxFileSize THEN FALSE
  ELSE TRUE

beforeUpload(file) ==
  IF ~includes(supportedExtensions, fileExtension(file.name)) THEN FALSE
  ELSE IF file.size > maxFileSize THEN FALSE
  ELSE TRUE

\* arr.join(', ') on an array of character sequences
join(arr) ==
  LET J[k \in 0 .. Len(arr)] ==
        IF k = 0 THEN <<>>
        ELSE IF k = 1 THEN arr[1]
        ELSE J[k - 1] \o <<", ">> \o arr[k]
  IN  J[Len(arr)]

\* the text of the message.error call of a rejecting beforeUpload
beforeUploadMessage(file) ==
  IF ~includes(supportedExtensions, fileExtension(file.name))
  THEN <<"unsupported file type: ">> \o fileExtension(file.name)
         \o <<". supported types: ">> \o join(supportedExtensions)
  ELSE <<"file size may not exceed 50MB">>

----------------------------------------------------------------------------
(* Server acknowledgments *)

FileInfoA ==
  [filename |-> "1_main.cpp", original_name |-> "main.cpp", size |-> 1024,
   extension |-> ".cpp", upload_time |-> "t1", file_path |-> "/up/1",
   status |-> "uploaded"]

FileInfoB ==
  [filename |-> "2_big.zip", original_name |-> "big.zip", size |-> 2048,
   extension |-> ".zip", upload_time |-> "t2", file_path |-> "/up/2",
   status |-> "processing"]

UploadResponse(s, m, fi, pid) ==
  [success |-> s, message |-> m, file_info |-> fi, project_id |-> pid]

\* JSON.parse(xhr.responseText): threw is TRUE for a SyntaxError; isNull
\* is TRUE when the text is the JSON literal null
JSONParse(text) ==
  CASE text = "ackA" ->
         [threw |-> FALSE, isNull |-> FALSE,
          value |-> UploadResponse(TRUE, "uploaded", FileInfoA, "p1")]
    [] text = "ackB" ->
         [threw |-> FALSE, isNull |-> FALSE,
          value |-> UploadResponse(TRUE, "uploaded", FileInfoB, "p2")]
    [] text = "rejected" ->
         [threw |-> FALSE, isNull |-> FALSE,
          value |-> UploadResponse(FALSE, "archive rejected", FileInfoA, "")]
    [] text = "null" ->
         [threw |-> FALSE, isNull |-> TRUE,
          value |-> UploadResponse(FALSE, "", FileInfoA, "")]
    [] OTHER ->
         [threw |-> TRUE, isNull |-> FALSE,
          value |-> UploadResponse(FALSE, "", FileInfoA, "")]

\* { ...response.file_info, project_id: response.project_id }
spreadRecord(fi, pid) ==
  [k \in (DOMAIN fi) \cup {"project_id"} |->
     IF k = "project_id" THEN pid ELSE fi[k]]

----------------------------------------------------------------------------
(* Values handed to the callbacks *)

NoError == [name |-> "", message |-> <<>>]

Error(msg) == [name |-> "Error", message |-> msg]

Call(cb, percent, error) == [cb |-> cb, percent |-> percent, error |-> error]

NoToast == [level |-> "none", text |-> <<>>]

Toast(level, text) == [level |-> level, text |-> text]

NoInput ==
  [op |-> "init", name |-> <<>>, size |-> 0, accepted |-> FALSE,
   threw |-> FALSE, lengthComputable |-> FALSE, loaded |-> 0, total |-> 0,
   status |-> 0, responseText |-> "", index |-> 0]

----------------------------------------------------------------------------
(* Transfer engine: the listeners customUpload registers *)

\* Math.round((event.loaded / event.total) * 100)
percentOf(loaded, total) == (200 * loaded + total) \div (2 * total)

\* the percentages the progress listener delivers for one event
progressPercents_always(lengthComputable, loaded, total) ==
  IF total > 0 THEN <<percentOf(loaded, total)>> ELSE <<0>>

progressPercents(lengthComputable, loaded, total) ==
  IF lengthComputable THEN <<percentOf(loaded, total)>> ELSE <<>>

statusOk_lax(status) == status >= 200 /\ status < 400

statusOk(status) == status = 200

httpErrorMessage(status) == <<"upload failed: HTTP ", ToString(status)>>

Outcome(t, a, c) == [toast |-> t, append |-> a, calls |-> c]

\* the catch block of the load listener
parseErrorOutcome(parseError) ==
  Outcome(Toast("error", <<"server response format error">>), <<>>,
          <<Call("onError", 0, parseError)>>)

\* the branch of the load listener taken when response.success is true
successOutcome_alsoError(response) ==
  Outcome(Toast("success", <<response.message>>),
          <<spreadRecord(response.file_info, response.project_id)>>,
          <<Call("onSuccess", 0, NoError),
            Call("onError", 0, Error(<<response.message>>))>>)

successOutcome(response) ==
  Outcome(Toast("success", <<response.message>>),
          <<spreadRecord(response.file_info, response.project_id)>>,
          <<Call("onSuccess", 0, NoError)>>)

\* the branch taken when response.success is false: the Error thrown
\* inside the try block is caught by the catch block of the same try
ackRejectedOutcome_partial(response) ==
  Outcome(Toast("error", <<"server response format error">>),
          <<spreadRecord(response.file_info, response.project_id)>>,
          <<Call("onError", 0, Error(<<response.message>>))>>)

ackRejectedOutcome(response) == parseErrorOutcome(Error(<<response.message>>))

\* the branch taken when the status is not 200
httpErrorOutcome(status) ==
  Outcome(Toast("error", httpErrorMessage(status)), <<>>,
          <<Call("onError", 0, Error(httpErrorMessage(status)))>>)

\* the load listener: the message shown, the records appended and the
\* callbacks called, in order
loadOutcome(status, responseText) ==
  IF statusOk(status)
  THEN LET parsed   == JSONParse(responseText)
           response == parsed.value
       IN  IF parsed.threw
           THEN parseErrorOutcome([name |-> "SyntaxError",
                                   message |-> <<"Unexpected token">>])
           ELSE IF parsed.isNull
           THEN parseErrorOutcome([name |-> "TypeError",
                                   message |-> <<"Cannot read properties of null">>])
           ELSE IF response.success
           THEN successOutcome(response)
           ELSE ackRejectedOutcome(response)
  ELSE httpErrorOutcome(status)

\* setUploadedFiles([...uploadedFiles, record]) with the value of
\* uploadedFiles the closure captured
appendUpdater_stale(prev, snapshot, records) == snapshot \o records

\* the updater the load listener hands to setUploadedFiles:
\* prev => [...prev, record]
appendUpdater(prev, snapshot, records) == prev \o records

\* prev.filter((_, i) => i !== index) with i counted from 1
removeFileUpdater_offByOne(prev, index) ==
  LET F[k \in 0 .. Len(prev)] ==
        IF k = 0 THEN <<>>
        ELSE IF k # index THEN Append(F[k - 1], prev[k])
        ELSE F[k - 1]
  IN  F[Len(prev)]

\* prev.splice(index, 1): a negative index counts from the end
removeFileUpdater_splice(prev, index) ==
  LET n     == Len(prev)
      start == IF index >= 0 THEN index
               ELSE IF n + index > 0 THEN n + index ELSE 0
  IN  IF start < n
      THEN SubSeq(prev, 1, start) \o SubSeq(prev, start + 2, n)
      ELSE prev

\* the updater removeFile hands to setUploadedFiles:
\* prev.filter((_, i) => i !== index), with i counted from 0
removeFileUpdater(prev, index) ==
  LET F[k \in 0 .. Len(prev)] ==
        IF k = 0 THEN <<>>
        ELSE IF (k - 1) # index THEN Append(F[k - 1], prev[k])
        ELSE F[k - 1]
  IN  F[Len(prev)]

----------------------------------------------------------------------------
Init ==
  /\ uploading = FALSE
  /\ uploadProgress = 0
  /\ uploadedFiles = <<>>
  /\ xhr = "none"
  /\ requests = 0
  /\ entered = 0
  /\ calls = <<>>
  /\ appended = 0
  /\ toast = NoToast
  /\ last = NoInput
  /\ captured = <<>>
  /\ succeeded = 0
  /\ removed = 0

\* the disabled prop of the Dragger
draggerDisabled_never == FALSE

draggerDisabled == uploading

\* A file is dropped on the Dragger.  The Dragger is disabled while
\* uploading; beforeUpload decides whether customRequest is called.
\* customUpload runs to the end of its synchronous body: threw is TRUE
\* when building or sending the request raises an exception.
Submit(file, threw) ==
  /\ ~draggerDisabled
  /\ last' = [NoInput EXCEPT !.op = "submit", !.name = file.name,
                             !.size = file.size,
                             !.accepted = beforeUpload(file),
                             !.threw = beforeUpload(file) /\ threw]
  /\ IF ~beforeUpload(file)
     THEN /\ ~threw
          /\ toast' = Toast("error", beforeUploadMessage(file))
          /\ UNCHANGED <<uploading, uploadProgress, uploadedFiles, xhr,
                         requests, entered, calls, appended, captured>>
     ELSE /\ entered < MaxTransfers
          /\ entered' = entered + 1
          /\ captured' = uploadedFiles
          /\ uploadProgress' = 0
          /\ appended' = 0
          /\ UNCHANGED uploadedFiles
          /\ IF threw
             THEN /\ toast' = Toast("error", <<"exception during upload">>)
                  /\ calls' = <<Call("onError", 0,
                                     [name |-> "Exception", message |-> <<>>])>>
                  /\ uploading' = FALSE
                  /\ UNCHANGED <<xhr, requests>>
             ELSE /\ uploading' = TRUE
                  /\ xhr' = "sent"
                  /\ requests' = requests + 1
                  /\ calls' = <<>>
                  /\ UNCHANGED toast
  /\ UNCHANGED <<succeeded, removed>>

\* xhr.upload fires a progress event
Progress(lengthComputable, loaded, total) ==
  /\ xhr = "sent"
  /\ Len(calls) < MaxTicks
  /\ last' = [NoInput EXCEPT !.op = "progress",
                             !.lengthComputable = lengthComputable,
                             !.loaded = loaded, !.total = total]
  /\ LET ps == progressPercents(lengthComputable, loaded, total)
     IN  IF ps # <<>>
         THEN /\ uploadProgress' = ps[1]
              /\ calls' = Append(calls, Call("onProgress", ps[1], NoError))
         ELSE UNCHANGED <<uploadProgress, calls>>
  /\ UNCHANGED <<uploading, uploadedFiles, xhr, requests, entered,
                 appended, toast, captured, succeeded, removed>>

\* xhr fires load: the request completed with a status and a body
Load(status, responseText) ==
  /\ xhr = "sent"
  /\ last' = [NoInput EXCEPT !.op = "load", !.status = status,
                             !.responseText = responseText]
  /\ LET o == loadOutcome(status, responseText)
     IN  /\ toast' = o.toast
         /\ uploadedFiles' = IF o.append # <<>>
                              THEN appendUpdater(uploadedFiles, captured,
                                                 o.append)
                              ELSE uploadedFiles
         /\ appended' = appended + Len(o.append)
         /\ calls' = calls \o o.calls
         /\ succeeded' = succeeded
              + Len(SelectSeq(o.calls, LAMBDA c : c.cb = "onSuccess"))
  /\ uploading' = FALSE
  /\ uploadProgress' = 0
  /\ xhr' = "none"
  /\ UNCHANGED <<requests, entered, captured, removed>>

\* xhr fires error: the request failed at the transport level
NetworkError ==
  /\ xhr = "sent"
  /\ last' = [NoInput EXCEPT !.op = "error"]
  /\ toast' = Toast("error", <<"network error, upload failed">>)
  /\ calls' = Append(calls, Call("onError", 0,
                                 Error(<<"network error, upload failed">>)))
  /\ uploading' = FALSE
  /\ uploadProgress' = 0
  /\ xhr' = "none"
  /\ UNCHANGED <<uploadedFiles, requests, entered, appended,
                 captured, succeeded, removed>>

removeFile(index) ==
  /\ last' = [NoInput EXCEPT !.op = "remove", !.index = index]
  /\ uploadedFiles' = removeFileUpdater(uploadedFiles, index)
  /\ toast' = Toast("success", <<"file removed from the list">>)
  /\ removed' = IF index \in 0 .. (Len(uploadedFiles) - 1)
                THEN removed + 1 ELSE removed
  /\ UNCHANGED <<uploading, uploadProgress, xhr, requests, entered,
                 calls, appended, captured, succeeded>>

Next ==
  \/ \E n \in Names, s \in Sizes, threw \in BOOLEAN :
       Submit([name |-> n, size |-> s], threw)
  \/ \E t \in Totals, l \in Loadeds : l <= t /\ Progress(TRUE, l, t)
  \/ Progress(FALSE, 0, 0)
  \/ \E st \in Statuses, rt \in ResponseTexts : Load(st, rt)
  \/ NetworkError
  \/ \E i \in Indices : removeFile(i)

Spec == Init /\ [][Next]_vars

----------------------------------------------------------------------------
(* Vocabulary of the properties *)

AllowedSet == {supportedExtensions[i] : i \in 1 .. Len(supportedExtensions)}

\* the acceptance policy as the specification words it
PolicyRejects(name, size) ==
  fileExtension(name) \notin AllowedSet \/ size > maxFileSize

\* positions of the terminal callbacks in a sequence of calls
Terminals(cs) == {i \in 1 .. Len(cs) : cs[i].cb \in {"onSuccess", "onError"}}

Successes(cs) == {i \in 1 .. Len(cs) : cs[i].cb = "onSuccess"}

Failures(cs) == {i \in 1 .. Len(cs) : cs[i].cb = "onError"}

ProgressCalls(cs) == {i \in 1 .. Len(cs) : cs[i].cb = "onProgress"}

Contains(msg, part) == \E k \in 1 .. Len(msg) : msg[k] = part

\* the body parses and carries success = true
ParsesWithSuccess(text) ==
  LET p == JSONParse(text)
  IN  ~p.threw /\ ~p.isNull /\ p.value.success

\* the body parses and carries success = false
ParsesWithoutSuccess(text) ==
  LET p == JSONParse(text)
  IN  ~p.threw /\ ~p.isNull /\ ~p.value.success

FormatErrorText == <<"server response format error">>

----------------------------------------------------------------------------
(* C1 *)

\* C1: a submission that the acceptance policy rejects, for its extension
\* or for its size, starts no transfer: customUpload is not entered, no
\* request is sent, and uploading, uploadProgress and uploadedFiles keep
\* their values.
C1_RejectedStartsNoTransfer ==
  [][(last'.op = "submit" /\ PolicyRejects(last'.name, last'.size))
       => UNCHANGED <<uploading, uploadProgress, uploadedFiles, xhr,
                      requests, entered, calls>>]_vars

C1_Witness ==
  /\ last.op = "submit"
  /\ last.size > maxFileSize
  /\ fileExtension(last.name) \in AllowedSet
  /\ ~last.accepted
  /\ uploadedFiles # <<>>
  /\ requests = 1

----------------------------------------------------------------------------
(* C2 *)

\* C2: a load event with a status anywhere in 200..299 and a body that
\* parses with success = true appends exactly one record, the
\* acknowledgment's file_info plus project_id, at the end of
\* uploadedFiles, whatever the list already holds.
C2_Any2xxAppendsOneRecord ==
  [][(/\ last'.op = "load"
      /\ last'.status \in 200 .. 299
      /\ ParsesWithSuccess(last'.responseText))
       => LET response == JSONParse(last'.responseText).value
          IN  uploadedFiles' =
                Append(uploadedFiles,
                       spreadRecord(response.file_info, response.project_id))]_vars

----------------------------------------------------------------------------
(* C3 *)

\* C3: a load event with a status outside 200..299 appends no record and
\* hands the caller exactly one failure, whose message (also the message
\* shown to the user) contains the numeric status.
C3_Non2xxIsServerRejected ==
  [][(last'.op = "load" /\ last'.status \notin 200 .. 299)
       => /\ uploadedFiles' = uploadedFiles
          /\ Len(calls') = Len(calls) + 1
          /\ Successes(calls') = {}
          /\ Cardinality(Failures(calls')) = 1
          /\ LET e == calls'[Len(calls')]
             IN  /\ e.cb = "onError"
                 /\ Contains(e.error.message, ToString(last'.status))
                 /\ toast' = Toast("error", e.error.message)
                 /\ toast'.text # FormatErrorText]_vars

C3_Witness ==
  /\ last.op = "load"
  /\ last.status = 404
  /\ last.responseText = "ackA"
  /\ uploadedFiles # <<>>
  /\ Failures(calls) # {}

----------------------------------------------------------------------------
(* C4 *)

\* C4: a load event with the success status 200 and a body that parses
\* with success = false is reported with the acknowledgment's own message,
\* to the user and to the caller alike, and never as a malformed
\* acknowledgment.
C4_AckRejectionKeepsItsMessage ==
  [][(/\ last'.op = "load"
      /\ last'.status = 200
      /\ ParsesWithoutSuccess(last'.responseText))
       => LET response == JSONParse(last'.responseText).value
              e        == calls'[Len(calls')]
          IN  /\ e.cb = "onError"
              /\ e.error.message = <<response.message>>
              /\ toast' = Toast("error", <<response.message>>)
              /\ toast'.text # FormatErrorText]_vars

----------------------------------------------------------------------------
(* C5 *)

\* the percentages delivered during one transfer lie in 0..100
C5_PercentInRange ==
  \A i \in ProgressCalls(calls) : calls[i].percent \in 0 .. 100

\* at most one terminal callback, exactly one once the transfer is over,
\* and nothing is delivered after it
C5_OneTerminalLast ==
  /\ Cardinality(Terminals(calls)) <= 1
  /\ (entered > 0 /\ xhr = "none") => Cardinality(Terminals(calls)) = 1
  /\ \A i \in Terminals(calls) : i = Len(calls)

\* the percentages delivered during one transfer never decrease
C5_NonDecreasing ==
  \A i, j \in ProgressCalls(calls) :
    i < j => calls[i].percent <= calls[j].percent

\* C5: within one transfer the delivered percentages are integers in
\* 0..100 and non-decreasing for any sequence of progress events, exactly
\* one terminal callback follows the last of them, and none is delivered
\* after it.
C5_ProgressMonotoneThenTerminal ==
  /\ C5_PercentInRange
  /\ C5_NonDecreasing
  /\ C5_OneTerminalLast
  /\ xhr = "sent" /\ calls # <<>> => uploadProgress = calls[Len(calls)].percent

----------------------------------------------------------------------------
(* C6 *)

----------------------------------------------------------------------------
(* C7 *)

\* the step is the terminal event of a transfer that failed
C7_FailedStep ==
  \/ last'.op = "submit" /\ last'.threw
  \/ last'.op = "error"
  \/ /\ last'.op = "load"
     /\ \/ last'.status \notin 200 .. 299
        \/ ~ParsesWithSuccess(last'.responseText)
        \/ Failures(calls') # {}

\* C7: the terminal event of a failed transfer, of any kind, leaves
\* uploadedFiles as it was and returns uploading to false and
\* uploadProgress to 0.
C7_FailureLeavesListAndResets ==
  [][C7_FailedStep
       => /\ uploadedFiles' = uploadedFiles
          /\ uploading' = FALSE
          /\ uploadProgress' = 0]_vars

C7_Witness ==
  /\ last.op = "load"
  /\ last.status = 200
  /\ last.responseText = "rejected"
  /\ uploadedFiles # <<>>
  /\ ProgressCalls(calls) # {}
  /\ ~uploading
  /\ uploadProgress = 0

----------------------------------------------------------------------------
(* C8 *)

\* C8: with an allowed extension, a size equal to maxFileSize passes
\* validation and a size of maxFileSize + 1 is rejected.
C8_CeilingIsInclusive ==
  (last.op = "submit" /\ fileExtension(last.name) \in AllowedSet)
    => /\ last.size = maxFileSize => (last.accepted /\ entered > 0)
       /\ last.size = maxFileSize + 1 => ~last.accepted

C8_Witness ==
  /\ last.op = "submit"
  /\ last.size = 50 * 1024 * 1024
  /\ last.accepted
  /\ xhr = "sent"
  /\ uploading

----------------------------------------------------------------------------
(* C9 *)

----------------------------------------------------------------------------
(* C10 *)

\* C10: removeFile(i) with i < 0 or i >= n leaves the list unchanged and
\* reports no error.
C10_RemoveOutOfRange ==
  [][(last'.op = "remove" /\ last'.index \notin 0 .. (Len(uploadedFiles) - 1))
       => /\ uploadedFiles' = uploadedFiles
          /\ toast'.level # "error"
          /\ UNCHANGED calls]_vars

C10_Witness ==
  /\ last.op = "remove"
  /\ last.index < 0
  /\ Len(uploadedFiles) = 2

----------------------------------------------------------------------------
(* C11 *)

\* C11: at most one transfer is in flight: a submission is accepted only
\* while uploading is false and no request is in flight, uploading becomes
\* true only when a transfer begins and false again only at that
\* transfer's load or error event, so uploading is true exactly when a
\* request is in flight.
C11_SingleFlight ==
  /\ [](uploading <=> xhr = "sent")
  /\ [][(last'.op = "submit" /\ last'.accepted)
          => (~uploading /\ xhr = "none")]_vars
  /\ [][(~uploading /\ uploading')
          => (last'.op = "submit" /\ last'.accepted /\ xhr' = "sent"
              /\ requests' = requests + 1)]_vars
  /\ [][(uploading /\ ~uploading') => last'.op \in {"load", "error"}]_vars

C11_Witness ==
  /\ uploading
  /\ xhr = "sent"
  /\ entered = 2
  /\ requests = 2
  /\ last.op = "progress"

----------------------------------------------------------------------------
(* C12 *)

\* length of the longest suffix of name without a ".": the text after the
\* final ".", the whole name when it has none
C12_TailLen(name) ==
  CHOOSE k \in 0 .. Len(name) :
    /\ \A i \in (Len(name) - k + 1) .. Len(name) : name[i] # "."
    /\ (k = Len(name) \/ name[Len(name) - k] = ".")

C12_Extension(name) ==
  <<".">> \o toLowerCase(SubSeq(name, Len(name) - C12_TailLen(name) + 1,
                                Len(name)))

\* C12: the extension tested is "." followed by the lower-cased text after
\* the final "." of the name, for a name without "." the whole lower-cased
\* name; a submission passes the extension test exactly when that string
\* is in the allow-list, so a file named H passes it.
C12_ExtensionOfNameWithoutDot ==
  last.op = "submit"
    => /\ last.accepted <=> (/\ C12_Extension(last.name) \in AllowedSet
                             /\ last.size <= maxFileSize)
       /\ (\A i \in 1 .. Len(last.name) : last.name[i] # ".")
            => (last.accepted <=> (/\ <<".">> \o toLowerCase(last.name)
                                        \in AllowedSet
                                   /\ last.size <= maxFileSize))

C12_Witness ==
  /\ last.op = "submit"
  /\ last.name = <<"H">>
  /\ last.accepted
  /\ ~last.threw
  /\ xhr = "sent"

----------------------------------------------------------------------------
(* C13 *)

\* C13: a progress event whose total is unknown delivers nothing: no
\* onProgress call and no change of uploadProgress, which is still 0 while
\* no percentage was delivered; the request stays in flight and the
\* transfer ends with exactly one terminal callback.
C13_UnknownTotalDeliversNothing ==
  /\ [][(last'.op = "progress" /\ ~last'.lengthComputable)
          => UNCHANGED <<uploadProgress, calls, uploading, xhr>>]_vars
  /\ []((xhr = "sent" /\ ProgressCalls(calls) = {})
          => (uploadProgress = 0 /\ calls = <<>>))
  /\ []((xhr = "none" /\ entered > 0 /\ ProgressCalls(calls) = {})
          => (Len(calls) = 1 /\ Terminals(calls) = {1}))

C13_Witness ==
  /\ last.op = "progress"
  /\ ~last.lengthComputable
  /\ xhr = "sent"
  /\ calls = <<>>
  /\ uploadProgress = 0

----------------------------------------------------------------------------
(* C14 *)

\* name is a non-empty base name followed by the allow-list entry e
C14_EndsWith(name, e) ==
  /\ Len(name) > Len(e)
  /\ SubSeq(name, Len(name) - Len(e) + 1, Len(name)) = e

\* C14: every entry of supportedExtensions is attainable: a submission
\* whose name is a non-empty base name followed by an entry of the list,
\* with a size within the ceiling, passes validation.
C14_EveryEntryAttainable ==
  (/\ last.op = "submit"
   /\ last.size <= maxFileSize
   /\ \E e \in AllowedSet : C14_EndsWith(last.name, e))
    => last.accepted

----------------------------------------------------------------------------
(* C15 *)

\* C15: removals interleaved with a transfer are neither lost nor undone:
\* a successful load event turns the list as it stands at that event into
\* that list followed by the new record, and in every state the length of
\* the list is the number of successful transfers minus the number of
\* removals with an index inside the list.
C15_RemovalsSurviveTransfers ==
  /\ [][(last'.op = "load" /\ succeeded' = succeeded + 1)
          => LET response == JSONParse(last'.responseText).value
             IN  uploadedFiles' =
                   Append(uploadedFiles,
                          spreadRecord(response.file_info,
                                       response.project_id))]_vars
  /\ [](Len(uploadedFiles) = succeeded - removed)

\* a record was removed while the second transfer was in flight, and that
\* transfer then succeeded
C15_Witness ==
  /\ last.op = "load"
  /\ succeeded = 2
  /\ removed = 1
  /\ Len(captured) = 1
  /\ Len(uploadedFiles) = 1
  /\ uploadedFiles # captured
  /\ ProgressCalls(calls) # {}

====
